---- MODULE Spec2Model ----
(***************************************************************************)
(* A model of the augmentation-runes tool (src/main.py, src/schemas.py):   *)
(* the sequential driver main(), the two interactive reviews               *)
(* process_alternatives and process_summaries, the completion client       *)
(* ask_openai with its retry loop, and the pure helpers parse_response and *)
(* create_string_from_list.  Python strings are TLA+ strings; the operator *)
(* answers and the endpoint's outcomes are the inputs of the actions.      *)
(***************************************************************************)
EXTENDS Integers, Sequences, FiniteSets, TLC

\* ------------------------------------------------------------------ bounds

\* The largest number of records in the loaded document.
MaxRecords == 2
\* The largest number of timeouts the endpoint produces for one call.
MaxTimeouts == 1
\* The pure-function harness: the longest input list and the longest string.
MaxItems == 2
MaxStrLen == 2

\* ----------------------------------------------------------------- strings

Char(s, i) == SubSeq(s, i, i)

\* The characters \d matches and the characters str.strip() removes.
IsDigit(c) == c \in {"0", "1", "2", "3", "4", "5", "6", "7", "8", "9"}
IsSpace(c) == c \in {" ", "\t", "\n", "\r", "\f"}

RECURSIVE lstrip(_)
lstrip(s) ==
    IF Len(s) > 0 /\ IsSpace(Char(s, 1)) THEN lstrip(SubSeq(s, 2, Len(s))) ELSE s

RECURSIVE rstrip(_)
rstrip(s) ==
    IF Len(s) > 0 /\ IsSpace(Char(s, Len(s))) THEN rstrip(SubSeq(s, 1, Len(s) - 1)) ELSE s

\* str.strip()
strip(s) == rstrip(lstrip(s))

\* str.startswith(prefix)
startswith(s, prefix) ==
    Len(s) >= Len(prefix) /\ SubSeq(s, 1, Len(prefix)) = prefix

\* The index of the first occurrence of the character c in s, 0 if none.
RECURSIVE IndexFrom(_, _, _)
IndexFrom(s, c, i) ==
    IF i > Len(s) THEN 0
    ELSE IF Char(s, i) = c THEN i
    ELSE IndexFrom(s, c, i + 1)

\* str.split(sep) for a one-character separator: "" gives [""].
RECURSIVE split(_, _)
split(s, sep) ==
    LET j == IndexFrom(s, sep, 1)
    IN  IF j = 0 THEN <<s>>
        ELSE <<SubSeq(s, 1, j - 1)>> \o split(SubSeq(s, j + 1, Len(s)), sep)

\* ------------------------------------------------------------- REGEX_ITEM

\* The length of the longest run of digits of s that starts at i.
RECURSIVE DigitRun(_, _)
DigitRun(s, i) ==
    IF i <= Len(s) /\ IsDigit(Char(s, i)) THEN 1 + DigitRun(s, i + 1) ELSE 0

\* re.compile(r'\d+\.'): the length of the match that starts at i, 0 if none.
\* \d+ is greedy and a shorter run is followed by a digit, never by the period,
\* so the only candidate is the whole run followed by a period.
REGEX_ITEM(s, i) ==
    LET n == DigitRun(s, i)
    IN  IF n > 0 /\ i + n <= Len(s) /\ Char(s, i + n) = "." THEN n + 1 ELSE 0

\* REGEX_ITEM.sub('', s): every non-overlapping match, scanning from the left,
\* is replaced by the empty string.
RECURSIVE REGEX_ITEM_sub(_)
REGEX_ITEM_sub(s) ==
    IF Len(s) = 0 THEN s
    ELSE LET m == REGEX_ITEM(s, 1)
         IN  IF m > 0 THEN REGEX_ITEM_sub(SubSeq(s, m + 1, Len(s)))
             ELSE Char(s, 1) \o REGEX_ITEM_sub(SubSeq(s, 2, Len(s)))

\* ---------------------------------------------------------- parse_response

\* filter(lambda x: bool(x.strip()), options)
RECURSIVE FilterNonBlank(_)
FilterNonBlank(options) ==
    IF options = <<>> THEN <<>>
    ELSE LET rest == FilterNonBlank(Tail(options))
         IN  IF Len(strip(Head(options))) > 0 THEN <<Head(options)>> \o rest ELSE rest

\* lambda x: REGEX_ITEM.sub('', x).strip(), as a function on the given lines.
clean(options) ==
    [x \in {options[k] : k \in 1..Len(options)} |-> strip(REGEX_ITEM_sub(x))]

\* A variant that maps the lambda over every line, with no filter.
parse_response_keep_blank(response) ==
    LET options == split(response, "\n")
    IN  [k \in 1..Len(options) |-> clean(options)[options[k]]]

parse_response(response) ==
    LET options == FilterNonBlank(split(response, "\n"))
    IN  [k \in 1..Len(options) |-> clean(options)[options[k]]]

\* -------------------------------------------------- create_string_from_list

\* The loop of create_string_from_list from index i on, with copied so far.
RECURSIVE create_string_loop(_, _, _)
create_string_loop(items, i, copied) ==
    IF i > Len(items) THEN copied
    ELSE create_string_loop(items, i + 1,
            copied \o "\"" \o items[i] \o "\""
                   \o (IF i - 1 < Len(items) - 1 THEN "," ELSE "")
                   \o "\n")

\* A variant that puts the comma after every item, the last included.
create_string_trailing_comma(items) ==
    LET RECURSIVE loop(_, _)
        loop(i, copied) ==
            IF i > Len(items) THEN copied
            ELSE loop(i + 1, copied \o "\"" \o items[i] \o "\"" \o "," \o "\n")
    IN  loop(1, "")

create_string_from_list(items) == create_string_loop(items, 1, "")

\* ------------------------------------------------------------------ schemas

\* Optional[list[str]]: None, or a list.
None == [some |-> FALSE, val |-> <<>>]
Some(list) == [some |-> TRUE, val |-> list]

\* Python's truth value of an Optional[list[str]]: None and [] are false.
truthy(opt) == opt.some /\ Len(opt.val) > 0

RuneDefinition(rune_name, description, type, alternatives, summaries) ==
    [rune_name |-> rune_name, description |-> description, type |-> type,
     alternatives |-> alternatives, summaries |-> summaries]

\* Processment(rune_definition=rune_definition): total_tokens defaults to 0.
Processment(rune_definition) ==
    [rune_definition |-> rune_definition, total_tokens |-> 0]

\* Prompt(role=..., content=...).dict()
Prompt(role, content) == [role |-> role, content |-> content]

\* The part of a Response the program reads: usage.total_tokens and the
\* content of the single choice.
Response(content, total_tokens) ==
    [usage |-> [total_tokens |-> total_tokens],
     choices |-> <<[message |-> Prompt("assistant", content)]>>]

\* ---------------------------------------------------------------- prompts

PROMPT_TO_GENERATE(rune_name, invert, text) ==
    "Escribe 10 párrafos que sean variación del siguiente párrafo:\n\n"
    \o "la runa " \o rune_name \o invert \o ": " \o text \o "\n\n"
    \o "Pero no te salgas de la runa " \o rune_name \o invert \o "\n"

PROMPT_TO_SUMMARY(text) ==
    "Resume bien resumido este párrafo sin agregar nada más: " \o text

get_only_the_rune_name(rune_name) ==
    IF startswith(rune_name, "RUNA")
    THEN strip(SubSeq(rune_name, Len("RUNA") + 1, Len(rune_name)))
    ELSE rune_name

\* A variant whose template has the {invert} field after the first
\* {rune_name} only.
alternatives_prompt_first_only(rune_definition) ==
    "Escribe 10 párrafos que sean variación del siguiente párrafo:\n\n"
    \o "la runa " \o get_only_the_rune_name(rune_definition.rune_name)
    \o (IF rune_definition.type = "invert" THEN " invertida" ELSE "")
    \o ": " \o rune_definition.description \o "\n\n"
    \o "Pero no te salgas de la runa "
    \o get_only_the_rune_name(rune_definition.rune_name) \o "\n"

\* The prompt process_alternatives builds for a record.
alternatives_prompt(rune_definition) ==
    PROMPT_TO_GENERATE(
        get_only_the_rune_name(rune_definition.rune_name),
        IF rune_definition.type = "invert" THEN " invertida" ELSE "",
        rune_definition.description)

\* -------------------------------------------------------------------- state

VARIABLES
    rune_definitions,   \* main: the loaded list of records
    loaded,             \* history: the list as load_json_file returned it
    i,                  \* main: the index of the for loop (1-based)
    pc,                 \* the position of the single thread of control
    processment,        \* main / process_*: the current Processment
    total_tokens,       \* main: the run-wide token total
    summaries,          \* process_summaries: the running summaries list
    alt_i,              \* process_summaries: the index of its for loop (1-based)
    prompt,             \* the prompt last built
    request,            \* ask_openai: the request waiting at the endpoint
    sent,               \* history: the requests issued by the current call
    timeouts,           \* history: the timeouts of the current call
    response,           \* the Response ask_openai last returned
    items,              \* process_alternatives: the parsed items
    clipboard,          \* the system clipboard (pyperclip)
    events,             \* history: per record, the kinds of event it caused
    completions,        \* history: number and token sum of returned completions
    contents,           \* history: contents returned in this summaries review
    adds,               \* history: the 'Add?' answers of this summaries review
    asks,               \* history: the answers to the ask question of this review
    error,              \* the exception that ended the run, "none" if none
    fn_pc,              \* pure-function harness: its position
    fn_in,              \* pure-function harness: the input list
    fn_out              \* pure-function harness: the result

main_vars == <<rune_definitions, loaded, i, pc, processment, total_tokens,
               summaries, alt_i, prompt, request, sent, timeouts, response,
               items, clipboard, events, completions, contents, adds, asks, error>>
fn_vars == <<fn_pc, fn_in, fn_out>>
vars == <<main_vars, fn_vars>>

\* ------------------------------------------------------------------- inputs

\* The records a document is made of: alternatives absent, empty or present,
\* with summaries absent, empty or present, names with and without the prefix,
\* both types.
RuneChoices ==
    { RuneDefinition("RUNA FEHU", "riqueza", "normal", None, None),
      RuneDefinition("ANSUZ", "mensaje", "invert", Some(<<>>), None),
      RuneDefinition("URUZ", "fuerza", "invert", None, Some(<<"s">>)),
      RuneDefinition("RUNA RAIDO", "viaje", "normal", Some(<<"a", "b">>), None),
      RuneDefinition("RUNA ISA", "hielo", "invert", Some(<<"a">>), Some(<<>>)),
      RuneDefinition("KENAZ", "fuego", "normal", Some(<<"a", "b">>), Some(<<"s">>)) }

\* The documents load_json_file can return: up to MaxRecords records.
Documents ==
    UNION { [1..n -> RuneChoices] : n \in 0..MaxRecords }

\* The completions the endpoint can return.
Responses ==
    { Response("1. x\n2. y", 10), Response("z", 15) }

\* The events of a record that the history keeps.
EventKinds ==
    { "pa_prompt", "pa_ask_q", "pa_declined", "pa_request", "pa_copy_q",
      "pa_clipboard",
      "ps_prompt", "ps_ask_q", "ps_declined", "ps_request", "ps_add_q",
      "ps_copy_q", "ps_clipboard" }

\* ----------------------------------------------------------------- ask_openai

\* The arguments of openai.ChatCompletion.create for a prompt.
ChatCompletion_request(pr) ==
    [model |-> "gpt-3.5-turbo",
     messages |-> << Prompt("system", "You are a helpful assistant."),
                     Prompt("user", pr) >>]

\* A variant of the retry that sends the user message alone.
ask_openai_retry_user_only(pr) ==
    [model |-> "gpt-3.5-turbo", messages |-> << Prompt("user", pr) >>]

\* The request the while loop issues again after a timeout: the same call
\* with the same prompt_messages.
ask_openai_retry(pr) == ChatCompletion_request(pr)

\* ----------------------------------------------------------------------- main

Init ==
    /\ rune_definitions \in Documents
    /\ loaded = rune_definitions
    /\ i = 1
    /\ pc = "main"
    /\ processment = Processment(RuneDefinition("", "", "normal", None, None))
    /\ total_tokens = 0
    /\ summaries = <<>>
    /\ alt_i = 1
    /\ prompt = ""
    /\ request = ChatCompletion_request("")
    /\ sent = <<>>
    /\ timeouts = 0
    /\ response = Response("", 0)
    /\ items = <<>>
    /\ clipboard = ""
    /\ events = [r \in 1..Len(rune_definitions) |-> {}]
    /\ completions = [n |-> 0, sum |-> 0]
    /\ contents = <<>>
    /\ adds = <<>>
    /\ asks = <<>>
    /\ error = "none"
    /\ fn_pc = "off"
    /\ fn_in = <<>>
    /\ fn_out = <<>>

\* Line 245: the record is complete and is skipped.
is_complete(rune_definition) ==
    truthy(rune_definition.alternatives) /\ truthy(rune_definition.summaries)

\* A variant of line 251 that tests for None instead of the truth value.
needs_alternatives_is_none(p) == ~p.rune_definition.alternatives.some

\* Line 251: the alternatives are missing.
needs_alternatives(p) == ~truthy(p.rune_definition.alternatives)

\* Lines 254-255: the summaries are missing and there are alternatives.
needs_summaries(p) ==
    truthy(p.rune_definition.alternatives) /\ ~truthy(p.rune_definition.summaries)

\* A driver without the resume logic: the summaries are generated again
\* whenever there are alternatives.
first_stage_no_resume(rune_definition) ==
    IF needs_alternatives(Processment(rune_definition)) THEN "alternatives"
    ELSE "summaries"

\* What the body of the for loop does first with a record: "skip" (continue),
\* or the review it enters, or "none" when neither condition holds.
first_stage(rune_definition) ==
    IF is_complete(rune_definition) THEN "skip"
    ELSE IF needs_alternatives(Processment(rune_definition)) THEN "alternatives"
    ELSE IF needs_summaries(Processment(rune_definition)) THEN "summaries"
    ELSE "none"

\* A variant that assigns the record's tokens to the total instead of adding.
FinishRecord_assign(p) ==
    /\ total_tokens' = p.total_tokens
    /\ i' = i + 1
    /\ pc' = "main"

\* Lines 258-260 and the step of the for loop: the record's tokens are added
\* to the run-wide total and the loop goes to the next record.
FinishRecord(p) ==
    /\ total_tokens' = total_tokens + p.total_tokens
    /\ i' = i + 1
    /\ pc' = "main"

\* A variant of line 148 that walks the alternatives from the last to the
\* first: enumerate(reversed(alternatives)).
SummariesLoop_reversed(p, j, ev) ==
    LET alternatives == p.rune_definition.alternatives.val
    IN  /\ alt_i' = j
        /\ IF j <= Len(alternatives)
           THEN /\ prompt' = PROMPT_TO_SUMMARY(alternatives[Len(alternatives) - j + 1])
                /\ events' = [events EXCEPT ![i] = ev \cup {"ps_prompt", "ps_ask_q"}]
                /\ pc' = "ps_confirm"
           ELSE /\ prompt' = prompt
                /\ events' = [events EXCEPT ![i] = ev \cup {"ps_copy_q"}]
                /\ pc' = "ps_copy"

\* process_summaries from the head of its for loop at index j, with the events
\* ev of the record so far: the prompt of the j-th alternative and the ask
\* question, or, past the last alternative, the 'Copy?' question.
SummariesLoop(p, j, ev) ==
    LET alternatives == p.rune_definition.alternatives.val
    IN  /\ alt_i' = j
        /\ IF j <= Len(alternatives)
           THEN /\ prompt' = PROMPT_TO_SUMMARY(alternatives[j])
                /\ events' = [events EXCEPT ![i] = ev \cup {"ps_prompt", "ps_ask_q"}]
                /\ pc' = "ps_confirm"
           ELSE /\ prompt' = prompt
                /\ events' = [events EXCEPT ![i] = ev \cup {"ps_copy_q"}]
                /\ pc' = "ps_copy"

\* Lines 243-256: one turn of the for loop up to the first operator question.
\* Past the last record, line 262 ends the run.
MainStep ==
    /\ pc = "main"
    /\ IF i > Len(rune_definitions)
       THEN /\ pc' = "done"
            /\ UNCHANGED <<i, processment, total_tokens, summaries, alt_i,
                           prompt, events, contents, adds, asks>>
       ELSE LET rune_definition == rune_definitions[i]
                p == Processment(rune_definition)
                stage == first_stage(rune_definition)
            IN  /\ processment' = p
                /\ IF stage = "skip"
                   THEN /\ i' = i + 1
                        /\ pc' = "main"
                        /\ UNCHANGED <<total_tokens, summaries, alt_i, prompt,
                                       events, contents, adds, asks>>
                   ELSE IF stage = "alternatives"
                   THEN /\ prompt' = alternatives_prompt(p.rune_definition)
                        /\ events' = [events EXCEPT
                                        ![i] = @ \cup {"pa_prompt", "pa_ask_q"}]
                        /\ pc' = "pa_confirm"
                        /\ UNCHANGED <<i, total_tokens, summaries, alt_i,
                                       contents, adds, asks>>
                   ELSE IF stage = "summaries"
                   THEN /\ summaries' = <<>>
                        /\ contents' = <<>>
                        /\ adds' = <<>>
                        /\ asks' = <<>>
                        /\ SummariesLoop(p, 1, events[i])
                        /\ UNCHANGED <<i, total_tokens>>
                   ELSE /\ FinishRecord(p)
                        /\ UNCHANGED <<summaries, alt_i, prompt, events,
                                       contents, adds, asks>>
    /\ UNCHANGED <<rune_definitions, loaded, request, sent, timeouts, response,
                   items, clipboard, completions, error>>
    /\ UNCHANGED fn_vars

\* Lines 253-260 after process_alternatives returned p: the summaries review
\* if the condition of lines 254-255 holds for p, else the end of the record.
AfterAlternatives(p, ev) ==
    IF needs_summaries(p)
    THEN /\ summaries' = <<>>
         /\ contents' = <<>>
         /\ adds' = <<>>
         /\ asks' = <<>>
         /\ SummariesLoop(p, 1, ev)
         /\ UNCHANGED <<i, total_tokens>>
    ELSE /\ FinishRecord(p)
         /\ events' = [events EXCEPT ![i] = ev]
         /\ UNCHANGED <<summaries, alt_i, prompt, contents, adds, asks>>

\* A variant of lines 201-207 without the return: 'Ignored' is printed and the
\* request is issued all the same.
ConfirmAlternatives_no_return ==
    /\ pc = "pa_confirm"
    /\ \E confirmed \in BOOLEAN :
         /\ request' = ChatCompletion_request(prompt)
         /\ sent' = <<ChatCompletion_request(prompt)>>
         /\ timeouts' = 0
         /\ events' = [events EXCEPT
                         ![i] = @ \cup (IF confirmed THEN {"pa_request"}
                                        ELSE {"pa_declined", "pa_request"})]
         /\ pc' = "pa_ask"
         /\ UNCHANGED <<i, total_tokens, summaries, alt_i, prompt,
                        contents, adds, asks>>
    /\ UNCHANGED <<rune_definitions, loaded, processment, response, items,
                   clipboard, completions, error>>
    /\ UNCHANGED fn_vars

\* Lines 201-207: the answer to 'Ask to OpenAI for this prompt?' in
\* process_alternatives.  No: the review returns.  Yes: ask_openai issues the
\* request.
ConfirmAlternatives ==
    /\ pc = "pa_confirm"
    /\ \E confirmed \in BOOLEAN :
         IF ~confirmed
         THEN /\ AfterAlternatives(processment, events[i] \cup {"pa_declined"})
              /\ UNCHANGED <<request, sent, timeouts>>
         ELSE /\ request' = ChatCompletion_request(prompt)
              /\ sent' = <<ChatCompletion_request(prompt)>>
              /\ timeouts' = 0
              /\ events' = [events EXCEPT ![i] = @ \cup {"pa_request"}]
              /\ pc' = "pa_ask"
              /\ UNCHANGED <<i, total_tokens, summaries, alt_i, prompt,
                             contents, adds, asks>>
    /\ UNCHANGED <<rune_definitions, loaded, processment, response, items,
                   clipboard, completions, error>>
    /\ UNCHANGED fn_vars

\* A variant of lines 95-97 that gives up on a timeout: the error is printed
\* and raised again, which ends the run.
AskOpenAITimeout_gives_up ==
    /\ pc \in {"pa_ask", "ps_ask"}
    /\ timeouts < MaxTimeouts
    /\ timeouts' = timeouts + 1
    /\ pc' = "aborted"
    /\ error' = "timeout"
    /\ UNCHANGED <<rune_definitions, loaded, i, processment, total_tokens,
                   summaries, alt_i, prompt, request, sent, response, items,
                   clipboard, events, completions, contents, adds, asks>>
    /\ UNCHANGED fn_vars

\* Lines 89-97: the endpoint times out; the except clause prints the error and
\* the loop issues the call again.
AskOpenAITimeout ==
    /\ pc \in {"pa_ask", "ps_ask"}
    /\ timeouts < MaxTimeouts
    /\ timeouts' = timeouts + 1
    /\ request' = ask_openai_retry(prompt)
    /\ sent' = Append(sent, ask_openai_retry(prompt))
    /\ UNCHANGED <<rune_definitions, loaded, i, pc, processment, total_tokens,
                   summaries, alt_i, prompt, response, items, clipboard, events,
                   completions, contents, adds, asks, error>>
    /\ UNCHANGED fn_vars

\* A variant whose except clause catches every exception: the failure is
\* printed and the loop goes on waiting for an answer.
AskOpenAIError_caught ==
    /\ pc \in {"pa_ask", "ps_ask"}
    /\ error' = "endpoint"
    /\ UNCHANGED <<rune_definitions, loaded, i, pc, processment, total_tokens,
                   summaries, alt_i, prompt, request, sent, timeouts, response,
                   items, clipboard, events, completions, contents, adds, asks>>
    /\ UNCHANGED fn_vars

\* Lines 91-94: the endpoint fails with an error that is not a Timeout; no
\* handler catches it and the run ends.
AskOpenAIError ==
    /\ pc \in {"pa_ask", "ps_ask"}
    /\ pc' = "aborted"
    /\ error' = "endpoint"
    /\ UNCHANGED <<rune_definitions, loaded, i, processment, total_tokens,
                   summaries, alt_i, prompt, request, sent, timeouts, response,
                   items, clipboard, events, completions, contents, adds, asks>>
    /\ UNCHANGED fn_vars

\* A variant of line 213 that also stores the parsed items in the record of
\* the Processment: rune_definition.alternatives = items.
AlternativesResponse_persist ==
    /\ pc = "pa_ask"
    /\ \E r \in Responses :
         /\ response' = r
         /\ processment' = [processment EXCEPT
                              !.total_tokens = @ + r.usage.total_tokens,
                              !.rune_definition.alternatives =
                                  Some(parse_response(r.choices[1].message.content))]
         /\ completions' = [n |-> completions.n + 1,
                            sum |-> completions.sum + r.usage.total_tokens]
         /\ items' = parse_response(r.choices[1].message.content)
    /\ events' = [events EXCEPT ![i] = @ \cup {"pa_copy_q"}]
    /\ pc' = "pa_copy"
    /\ UNCHANGED <<rune_definitions, loaded, i, total_tokens, summaries, alt_i,
                   prompt, request, sent, timeouts, clipboard, contents, adds, asks,
                   error>>
    /\ UNCHANGED fn_vars

\* Lines 98-100 and 208-220: the endpoint answers; process_alternatives adds
\* the tokens, parses the content and asks 'Copy?'.
AlternativesResponse ==
    /\ pc = "pa_ask"
    /\ \E r \in Responses :
         /\ response' = r
         /\ processment' = [processment EXCEPT
                              !.total_tokens = @ + r.usage.total_tokens]
         /\ completions' = [n |-> completions.n + 1,
                            sum |-> completions.sum + r.usage.total_tokens]
         /\ items' = parse_response(r.choices[1].message.content)
    /\ events' = [events EXCEPT ![i] = @ \cup {"pa_copy_q"}]
    /\ pc' = "pa_copy"
    /\ UNCHANGED <<rune_definitions, loaded, i, total_tokens, summaries, alt_i,
                   prompt, request, sent, timeouts, clipboard, contents, adds, asks,
                   error>>
    /\ UNCHANGED fn_vars

\* Lines 220-226: the answer to 'Copy?' in process_alternatives, and the
\* return to main.
CopyAlternatives ==
    /\ pc = "pa_copy"
    /\ \E will_copy \in BOOLEAN :
         IF will_copy
         THEN /\ clipboard' = create_string_from_list(items)
              /\ AfterAlternatives(processment, events[i] \cup {"pa_clipboard"})
         ELSE /\ clipboard' = clipboard
              /\ AfterAlternatives(processment, events[i])
    /\ UNCHANGED <<rune_definitions, loaded, processment, request, sent,
                   timeouts, response, items, completions, error>>
    /\ UNCHANGED fn_vars

\* A variant of lines 152-154 that ends the loop on a declined ask (break
\* in place of continue).
ConfirmSummary_break ==
    /\ pc = "ps_confirm"
    /\ \E confirmed \in BOOLEAN :
         /\ asks' = Append(asks, [alt |-> alt_i, confirmed |-> confirmed])
         /\ IF ~confirmed
            THEN /\ SummariesLoop(processment,
                                  Len(processment.rune_definition.alternatives.val) + 1,
                                  events[i] \cup {"ps_declined"})
                 /\ UNCHANGED <<request, sent, timeouts>>
            ELSE /\ request' = ChatCompletion_request(prompt)
                 /\ sent' = <<ChatCompletion_request(prompt)>>
                 /\ timeouts' = 0
                 /\ events' = [events EXCEPT ![i] = @ \cup {"ps_request"}]
                 /\ pc' = "ps_ask"
                 /\ UNCHANGED <<alt_i, prompt>>
    /\ UNCHANGED <<rune_definitions, loaded, i, processment, total_tokens,
                   summaries, response, items, clipboard, completions, contents,
                   adds, error>>
    /\ UNCHANGED fn_vars

\* Lines 151-156: the answer to 'Ask to OpenAI for this prompt?' for the
\* alt_i-th alternative.  No: the loop continues with the next alternative.
\* Yes: ask_openai issues the request.
ConfirmSummary ==
    /\ pc = "ps_confirm"
    /\ \E confirmed \in BOOLEAN :
         /\ asks' = Append(asks, [alt |-> alt_i, confirmed |-> confirmed])
         /\ IF ~confirmed
            THEN /\ SummariesLoop(processment, alt_i + 1,
                                  events[i] \cup {"ps_declined"})
                 /\ UNCHANGED <<request, sent, timeouts>>
            ELSE /\ request' = ChatCompletion_request(prompt)
                 /\ sent' = <<ChatCompletion_request(prompt)>>
                 /\ timeouts' = 0
                 /\ events' = [events EXCEPT ![i] = @ \cup {"ps_request"}]
                 /\ pc' = "ps_ask"
                 /\ UNCHANGED <<alt_i, prompt>>
    /\ UNCHANGED <<rune_definitions, loaded, i, processment, total_tokens,
                   summaries, response, items, clipboard, completions, contents,
                   adds, error>>
    /\ UNCHANGED fn_vars

\* Lines 98-100 and 157-164: the endpoint answers; process_summaries adds the
\* tokens, prints the content and asks 'Add?'.
SummariesResponse ==
    /\ pc = "ps_ask"
    /\ \E r \in Responses :
         /\ response' = r
         /\ processment' = [processment EXCEPT
                              !.total_tokens = @ + r.usage.total_tokens]
         /\ completions' = [n |-> completions.n + 1,
                            sum |-> completions.sum + r.usage.total_tokens]
         /\ contents' = Append(contents, r.choices[1].message.content)
    /\ events' = [events EXCEPT ![i] = @ \cup {"ps_add_q"}]
    /\ pc' = "ps_add"
    /\ UNCHANGED <<rune_definitions, loaded, i, total_tokens, summaries, alt_i,
                   prompt, request, sent, timeouts, items, clipboard, adds, asks,
                   error>>
    /\ UNCHANGED fn_vars

\* A variant that appends the content once, whatever the answer.
add_summary_once(list, content, will_add) == Append(list, content)

\* Lines 165-168: the summaries list after the answer will_add to 'Add?'.
add_summary(list, content, will_add) ==
    LET added == IF will_add THEN Append(list, content) ELSE list
    IN  Append(added, content)

\* Lines 164-168 and the next turn of the for loop: the answer to 'Add?'.
AddSummary ==
    /\ pc = "ps_add"
    /\ \E will_add \in BOOLEAN :
         /\ summaries' = add_summary(summaries,
                                     response.choices[1].message.content,
                                     will_add)
         /\ adds' = Append(adds, will_add)
    /\ SummariesLoop(processment, alt_i + 1, events[i])
    /\ UNCHANGED <<rune_definitions, loaded, i, processment, total_tokens,
                   request, sent, timeouts, response, items, clipboard,
                   completions, contents, asks, error>>
    /\ UNCHANGED fn_vars

\* A variant of lines 175-181 that also stores the summaries in the record.
CopySummaries_persist ==
    /\ pc = "ps_copy"
    /\ \E will_copy \in BOOLEAN :
         IF will_copy /\ Len(create_string_from_list(summaries)) > 0
         THEN /\ clipboard' = create_string_from_list(summaries)
              /\ events' = [events EXCEPT ![i] = @ \cup {"ps_clipboard"}]
              /\ rune_definitions' =
                    [rune_definitions EXCEPT ![i].summaries = Some(summaries)]
              /\ FinishRecord(processment)
         ELSE /\ FinishRecord(processment)
              /\ UNCHANGED <<clipboard, events, rune_definitions>>
    /\ UNCHANGED <<loaded, processment, summaries, alt_i, prompt, request,
                   sent, timeouts, response, items, completions, contents,
                   adds, asks, error>>
    /\ UNCHANGED fn_vars

\* Lines 175-181 and 258-260: the answer to 'Copy?' in process_summaries.  The
\* assertion of line 178 ends the run when the serialized text is empty.
CopySummaries ==
    /\ pc = "ps_copy"
    /\ \E will_copy \in BOOLEAN :
         IF will_copy
         THEN LET copied == create_string_from_list(summaries)
              IN  IF Len(copied) > 0
                  THEN /\ clipboard' = copied
                       /\ events' = [events EXCEPT ![i] = @ \cup {"ps_clipboard"}]
                       /\ FinishRecord(processment)
                       /\ error' = error
                  ELSE /\ pc' = "aborted"
                       /\ error' = "assertion"
                       /\ UNCHANGED <<clipboard, events, i, total_tokens>>
         ELSE /\ FinishRecord(processment)
              /\ UNCHANGED <<clipboard, events, error>>
    /\ UNCHANGED <<rune_definitions, loaded, processment, summaries, alt_i,
                   prompt, request, sent, timeouts, response, items,
                   completions, contents, adds, asks>>
    /\ UNCHANGED fn_vars

Next ==
    \/ MainStep
    \/ ConfirmAlternatives
    \/ AlternativesResponse
    \/ CopyAlternatives
    \/ ConfirmSummary
    \/ SummariesResponse
    \/ AddSummary
    \/ CopySummaries
    \/ AskOpenAITimeout
    \/ AskOpenAIError

Spec == Init /\ [][Next]_vars

\* The endpoint eventually answers a request that is waiting: a call that
\* stays in its retry loop is eventually given a completion.
SpecFair ==
    /\ Spec
    /\ WF_vars(AlternativesResponse)
    /\ WF_vars(SummariesResponse)

\* ------------------------------------------------- the pure-function harness

\* The characters of the harness's strings: a letter, a space, a digit and a
\* period.
FnAlphabet == {"a", " ", "7", "."}

RECURSIVE StringsOfLen(_)
StringsOfLen(n) ==
    IF n = 0 THEN {""}
    ELSE { s \o c : s \in StringsOfLen(n - 1), c \in FnAlphabet }

FnStrings == UNION { StringsOfLen(n) : n \in 0..MaxStrLen }

FnLists == UNION { [1..n -> FnStrings] : n \in 0..MaxItems }

\* The decimal numeral of a natural number.
RECURSIVE Decimal(_)
Decimal(n) ==
    IF n < 10 THEN SubSeq("0123456789", n + 1, n + 1)
    ELSE Decimal(n \div 10) \o SubSeq("0123456789", (n % 10) + 1, (n % 10) + 1)

\* "\n".join(list)
RECURSIVE join_lines(_)
join_lines(list) ==
    IF Len(list) = 0 THEN ""
    ELSE IF Len(list) = 1 THEN list[1]
    ELSE list[1] \o "\n" \o join_lines(Tail(list))

\* The k-th string prefixed with "k. ", the lines joined with newlines.
numbered(list) ==
    join_lines([k \in 1..Len(list) |-> Decimal(k) \o ". " \o list[k]])

InitFn ==
    /\ rune_definitions = <<>>
    /\ loaded = <<>>
    /\ i = 1
    /\ pc = "off"
    /\ processment = Processment(RuneDefinition("", "", "normal", None, None))
    /\ total_tokens = 0
    /\ summaries = <<>>
    /\ alt_i = 1
    /\ prompt = ""
    /\ request = ChatCompletion_request("")
    /\ sent = <<>>
    /\ timeouts = 0
    /\ response = Response("", 0)
    /\ items = <<>>
    /\ clipboard = ""
    /\ events = <<>>
    /\ completions = [n |-> 0, sum |-> 0]
    /\ contents = <<>>
    /\ adds = <<>>
    /\ asks = <<>>
    /\ error = "none"
    /\ fn_pc = "input"
    /\ fn_in \in FnLists
    /\ fn_out = <<>>

\* parse_response applied to the numbered rendering of the input list.
FnParseNumbered ==
    /\ fn_pc = "input"
    /\ fn_out' = parse_response(numbered(fn_in))
    /\ fn_pc' = "parsed"
    /\ UNCHANGED <<fn_in, main_vars>>

\* create_string_from_list applied to the input list.
FnExport ==
    /\ fn_pc = "input"
    /\ fn_out' = create_string_from_list(fn_in)
    /\ fn_pc' = "exported"
    /\ UNCHANGED <<fn_in, main_vars>>

\* "".join(list)
RECURSIVE concat(_)
concat(list) ==
    IF Len(list) = 0 THEN "" ELSE list[1] \o concat(Tail(list))

\* parse_response applied to one line, the input strings put end to end.
FnParseLine ==
    /\ fn_pc = "input"
    /\ fn_out' = parse_response(concat(fn_in))
    /\ fn_pc' = "line"
    /\ UNCHANGED <<fn_in, main_vars>>

\* parse_response applied to the text whose lines are the input strings.
FnParseLines ==
    /\ fn_pc = "input"
    /\ fn_out' = parse_response(join_lines(fn_in))
    /\ fn_pc' = "lines"
    /\ UNCHANGED <<fn_in, main_vars>>

NextFn ==
    \/ FnParseNumbered
    \/ FnExport
    \/ FnParseLine
    \/ FnParseLines

SpecFn == InitFn /\ [][NextFn]_vars

\* ------------------------------------------------------ the prompt harness

\* Rune names and descriptions, some with the prefix RUNA and some with the
\* word invertida in them.
PromptNames ==
    { "RUNA FEHU", "FEHU", "RUNA", "RUNAS", "RUNA  ISA ", "", "ISA invertida" }
PromptDescriptions ==
    { "riqueza", "", "runa invertida", "la runa FEHU: riqueza" }
PromptRecords ==
    { RuneDefinition(rune_name, description, type, None, None) :
        rune_name \in PromptNames, description \in PromptDescriptions,
        type \in {"normal", "invert"} }

InitPrompt ==
    /\ rune_definitions = <<>>
    /\ loaded = <<>>
    /\ i = 1
    /\ pc = "off"
    /\ processment = Processment(RuneDefinition("", "", "normal", None, None))
    /\ total_tokens = 0
    /\ summaries = <<>>
    /\ alt_i = 1
    /\ prompt = ""
    /\ request = ChatCompletion_request("")
    /\ sent = <<>>
    /\ timeouts = 0
    /\ response = Response("", 0)
    /\ items = <<>>
    /\ clipboard = ""
    /\ events = <<>>
    /\ completions = [n |-> 0, sum |-> 0]
    /\ contents = <<>>
    /\ adds = <<>>
    /\ asks = <<>>
    /\ error = "none"
    /\ fn_pc = "input"
    /\ fn_in \in PromptRecords
    /\ fn_out = ""

\* Lines 188-198: the prompt process_alternatives builds for the input record.
FnPrompt ==
    /\ fn_pc = "input"
    /\ fn_out' = alternatives_prompt(fn_in)
    /\ fn_pc' = "prompt"
    /\ UNCHANGED <<fn_in, main_vars>>

NextPrompt == FnPrompt

SpecPrompt == InitPrompt /\ [][NextPrompt]_vars

\* ------------------------------------------------------------------- claims

Records == 1..Len(rune_definitions)

InAlternatives == pc \in {"pa_confirm", "pa_ask", "pa_copy"}
InSummaries == pc \in {"ps_confirm", "ps_ask", "ps_add", "ps_copy"}
Waiting == pc \in {"pa_ask", "ps_ask"}

\* C1: a record that is complete at load time causes no prompt, no operator
\* question, no completion request and no clipboard write, whatever the other
\* records are, and the turn of the loop that meets it leaves the run-wide
\* token total, the returned completions and the clipboard as they were and
\* goes on to the next record.
C1_CompleteRecordSkipped ==
    /\ [](\A r \in Records : is_complete(loaded[r]) => events[r] = {})
    /\ [][(pc = "main" /\ i \in Records /\ is_complete(loaded[i]))
            => /\ total_tokens' = total_tokens
               /\ completions' = completions
               /\ clipboard' = clipboard
               /\ events' = events
               /\ i' = i + 1
               /\ pc' = "main"]_vars

\* C1 witness: a complete record has been passed in a run in which another
\* record was reviewed, consumed tokens and reached the clipboard.
C1_Witness ==
    \E r \in Records, q \in Records :
        /\ is_complete(loaded[r]) /\ i > r
        /\ q # r /\ "ps_clipboard" \in events[q]
        /\ total_tokens > 0

\* The summaries list that the answers to 'Add?' give for the contents
\* returned: a content once after a no, twice in a row after a yes.
RECURSIVE OnceOrTwice(_, _)
OnceOrTwice(cs, as) ==
    IF Len(cs) = 0 THEN <<>>
    ELSE (IF as[1] THEN <<cs[1], cs[1]>> ELSE <<cs[1]>>)
         \o OnceOrTwice(Tail(cs), Tail(as))

\* The contents whose 'Add?' has been answered.
Answered == SubSeq(contents, 1, Len(adds))

C3_TokenTotal ==
    /\ pc \in {"main", "done"} => total_tokens = completions.sum
    /\ (InAlternatives \/ InSummaries)
          => total_tokens + processment.total_tokens = completions.sum

\* C3 witness: the end of a run with two completions, of 10 and 15 tokens,
\* in two different records, and a total of 25.
C3_Witness ==
    /\ pc = "done"
    /\ completions = [n |-> 2, sum |-> 25]
    /\ total_tokens = 25
    /\ \A r \in Records : events[r] \cap {"pa_request", "ps_request"} # {}

\* C4: while ask_openai waits, every request issued by the call is the one
\* request built from the prompt (same model, same two messages), one per
\* timeout plus the first; a timeout leaves the call waiting with the same
\* request and changes no token counter, no operator question, no response
\* and no clipboard.
C4_TimeoutRetriesSameRequest ==
    /\ [](Waiting =>
            /\ Len(sent) = timeouts + 1
            /\ \A k \in 1..Len(sent) : sent[k] = ChatCompletion_request(prompt)
            /\ request = ChatCompletion_request(prompt))
    /\ [][(Waiting /\ timeouts' = timeouts + 1)
            => /\ pc' = pc
               /\ request' = request
               /\ events' = events
               /\ response' = response
               /\ completions' = completions
               /\ processment' = processment
               /\ total_tokens' = total_tokens
               /\ clipboard' = clipboard]_vars

\* C4 witness: a completion returned by a call that timed out first.
C4_Witness ==
    /\ pc \in {"pa_copy", "ps_add"}
    /\ timeouts >= 1
    /\ Len(sent) = timeouts + 1

\* C5: a failure of the endpoint that is not a timeout ends the run: the
\* program is at its abort position, and nothing changes afterwards (no
\* retry, no prompt, no question, no request, no clipboard write, no further
\* record).
C5_EndpointErrorIsFatal ==
    /\ [](error = "endpoint" => pc = "aborted")
    /\ [][error = "endpoint" => UNCHANGED vars]_vars

\* C5 witness: the run aborted on an endpoint failure in the first of two
\* records, the second never reached.
C5_Witness ==
    /\ error = "endpoint"
    /\ pc = "aborted"
    /\ i = 1
    /\ Len(rune_definitions) = 2

\* C6 (as stated): parse_response applied to the numbered rendering of a list
\* of strings without newlines gives back the list, each string stripped of
\* its surrounding whitespace.
C6_RoundTrip ==
    fn_pc = "parsed" => fn_out = [k \in 1..Len(fn_in) |-> strip(fn_in[k])]

\* The number of occurrences of the character c in s.
RECURSIVE CountChar(_, _)
CountChar(s, c) ==
    IF Len(s) = 0 THEN 0
    ELSE (IF Char(s, 1) = c THEN 1 ELSE 0) + CountChar(SubSeq(s, 2, Len(s)), c)

\* C7: create_string_from_list renders n strings as n lines in list order,
\* the k-th line being the k-th item in double quotes followed by a comma
\* unless it is the last; the text ends with a newline, and the empty list
\* gives the empty string.  ['a'] gives '"a"\n' and ['a', '.'] gives
\* '"a",\n"."\n'.
C7_ExportFormat ==
    fn_pc = "exported" =>
        LET n == Len(fn_in)
            lines == split(fn_out, "\n")
        IN  /\ n = 0 => fn_out = ""
            /\ Len(lines) = n + 1
            /\ lines[n + 1] = ""
            /\ CountChar(fn_out, ",") = (IF n = 0 THEN 0 ELSE n - 1)
            /\ \A k \in 1..n :
                 lines[k] = "\"" \o fn_in[k] \o "\"" \o (IF k < n THEN "," ELSE "")
            /\ fn_in = <<"a">> => fn_out = "\"a\"\n"
            /\ fn_in = <<"a", ".">> => fn_out = "\"a\",\n\".\"\n"

\* C7 witness: a list of two items has been rendered.
C7_Witness ==
    /\ fn_pc = "exported"
    /\ fn_in = <<"a", ".">>
    /\ fn_out = "\"a\",\n\".\"\n"

\* C8: the records are at every moment as they were loaded, and the record a
\* review works on is the loaded one: nothing generated is stored in a record.
C8_RecordsUnchanged ==
    /\ rune_definitions = loaded
    /\ (InAlternatives \/ InSummaries) => processment.rune_definition = loaded[i]

\* C8 witness: the end of a run in which both reviews wrote to the clipboard.
C8_Witness ==
    /\ pc = "done"
    /\ \E r \in Records : "pa_clipboard" \in events[r]
    /\ \E r \in Records : "ps_clipboard" \in events[r]
    /\ clipboard # ""

AlternativesRan(r) == "pa_prompt" \in events[r]
SummariesRan(r) == "ps_prompt" \in events[r]

\* C9: for every record that is not complete and that the driver has finished
\* with, the alternatives review ran if and only if the record's alternatives
\* are absent or empty, and the summaries review ran if and only if its
\* alternatives are present and non-empty and its summaries absent or empty;
\* the same holds of the review the driver is in for the current record.
C9_StageDispatch ==
    /\ \A r \in Records :
         (r < i /\ ~is_complete(loaded[r])) =>
            /\ AlternativesRan(r) <=> ~truthy(rune_definitions[r].alternatives)
            /\ SummariesRan(r) <=>
                  (/\ truthy(rune_definitions[r].alternatives)
                   /\ ~truthy(rune_definitions[r].summaries))
    /\ InAlternatives =>
          (AlternativesRan(i) /\ ~truthy(rune_definitions[i].alternatives))
    /\ InSummaries =>
          /\ SummariesRan(i)
          /\ truthy(rune_definitions[i].alternatives)
          /\ ~truthy(rune_definitions[i].summaries)

\* C9 witness: the driver has finished with a record whose alternatives are
\* an empty list, reviewed for alternatives, and with one reviewed for
\* summaries.
C9_Witness ==
    /\ pc = "done"
    /\ \E r \in Records :
         /\ rune_definitions[r].alternatives = Some(<<>>)
         /\ AlternativesRan(r)
    /\ \E r \in Records : SummariesRan(r)

\* C10: when the operator declines to ask in the alternatives review, the
\* review ends there: that record never has a completion request, a 'Copy?'
\* question, a clipboard write or a summaries review, and the declining step
\* leaves the record's token counter at 0, the run-wide total, the returned
\* completions and the clipboard unchanged, and moves the driver to the next
\* record.
C10_DeclinedAlternatives ==
    /\ [](\A r \in Records :
            "pa_declined" \in events[r] =>
               /\ events[r] = {"pa_prompt", "pa_ask_q", "pa_declined"}
               /\ i > r)
    /\ [][(pc = "pa_confirm" /\ "pa_declined" \in events'[i])
            => /\ processment' = processment
               /\ processment.total_tokens = 0
               /\ total_tokens' = total_tokens
               /\ completions' = completions
               /\ clipboard' = clipboard
               /\ request' = request
               /\ sent' = sent
               /\ i' = i + 1
               /\ pc' = "main"]_vars

\* C10 witness: the operator declined for the first record and the driver
\* is working on the second.
C10_Witness ==
    /\ Len(rune_definitions) = 2
    /\ "pa_declined" \in events[1]
    /\ i = 2
    /\ pc = "ps_confirm"

\* C11 (as stated): in process_summaries the assertion of line 178 never
\* fails: whenever the operator answers yes to 'Copy?' the serialized text is
\* non-empty and the review returns normally, for any ask and add answers.
C11_CopyAssertionHolds ==
    error # "assertion"

Returned == pc \in {"pa_copy", "ps_add"}

\* C12: if the endpoint eventually answers a waiting request and does not
\* fail, every call of ask_openai eventually returns; a timeout never ends the
\* call (it stays in its loop, whatever the number of timeouts so far), and
\* the call is left only by a returned completion or by an endpoint failure
\* that is not a timeout: the position after the call is reached in no other
\* way.
C12_AskOpenAIReturns ==
    /\ [](error # "endpoint") => (Waiting ~> Returned)
    /\ [][(Waiting /\ timeouts' # timeouts) => (Waiting' /\ pc' = pc)]_vars
    /\ [][(Waiting /\ ~Waiting')
            => \/ (Returned' /\ completions'.n = completions.n + 1)
               \/ (pc' = "aborted" /\ error' = "endpoint")]_vars
    /\ [][(~Waiting /\ Returned') => FALSE]_vars

\* C12 witness: a call in the summaries review returned after the endpoint
\* had timed out as often as the model lets it.
C12_Witness ==
    /\ pc = "ps_add"
    /\ timeouts = MaxTimeouts
    /\ completions.n >= 1

\* The line s without the enumeration marker it starts with, if it starts
\* with one.
LeadingMarkerRemoved(s) ==
    LET m == REGEX_ITEM(s, 1)
    IN  IF m > 0 THEN SubSeq(s, m + 1, Len(s)) ELSE s

\* C13 (as stated): parse_response removes from a kept line only the
\* enumeration marker at the start of the line (counted from the first
\* character or from the first character that is not whitespace) and leaves
\* every other digits-and-period sequence in the item.  The line 'a7.' would
\* give the item 'a7.'.
C13_OnlyLeadingMarker ==
    fn_pc = "line" =>
        LET line == concat(fn_in)
        IN  IF strip(line) = "" THEN fn_out = <<>>
            ELSE fn_out \in { <<strip(LeadingMarkerRemoved(line))>>,
                              <<strip(LeadingMarkerRemoved(lstrip(line)))>> }

\* The input lines that are non-empty after trimming, and the index of the
\* k-th of them.
Kept(lines) == { j \in 1..Len(lines) : strip(lines[j]) # "" }
KeptAt(lines, k) ==
    CHOOSE j \in Kept(lines) : Cardinality({ m \in Kept(lines) : m <= j }) = k

\* C14: parse_response returns one item for each line that is non-empty after
\* trimming, in the order of the lines (the k-th item is made from the k-th
\* such line), and nothing for the other lines; a text without such a line,
\* the empty string included, gives the empty list.
C14_OneItemPerNonBlankLine ==
    fn_pc = "lines" =>
        /\ Len(fn_out) = Cardinality(Kept(fn_in))
        /\ \A k \in 1..Len(fn_out) :
               fn_out[k] = strip(REGEX_ITEM_sub(fn_in[KeptAt(fn_in, k)]))
        /\ (\A j \in 1..Len(fn_in) : strip(fn_in[j]) = "") => fn_out = <<>>

C14_Witness ==
    /\ fn_pc = "lines"
    /\ fn_in = <<" ", "a">>
    /\ fn_out = <<"a">>

\* The asks of the current summaries review that the operator agreed to.
Agreed(a) == a.confirmed
AgreedAsks == SelectSeq(asks, Agreed)

\* C15: in a summaries review the alternatives are put to the operator one
\* after the other, each once; a declined ask sends nothing to the endpoint,
\* leaves the tokens, the completions and the summaries list as they were and
\* moves the review to the next alternative (to 'Copy?' after the last); the
\* number of completions obtained in the review is the number of alternatives
\* the operator agreed to ask (less the one still waiting at the endpoint),
\* the request waiting is the one for the current alternative, and the
\* completions, hence the summaries, come in the order of their alternatives.
C15_DeclinedAskSkipped ==
    /\ [](InSummaries =>
            LET alternatives == processment.rune_definition.alternatives.val
            IN  /\ \A k \in 1..Len(asks) : asks[k].alt = k
                /\ Len(asks) = (IF pc = "ps_confirm" THEN alt_i - 1
                                ELSE IF pc = "ps_copy" THEN Len(alternatives)
                                ELSE alt_i)
                /\ Len(contents) = Len(AgreedAsks) - (IF pc = "ps_ask" THEN 1 ELSE 0)
                /\ pc = "ps_ask" =>
                     /\ asks[alt_i].confirmed
                     /\ sent[1] = ChatCompletion_request(
                                      PROMPT_TO_SUMMARY(alternatives[alt_i])))
    /\ [][(pc = "ps_confirm" /\ pc' # "ps_ask") =>
            /\ ~asks'[alt_i].confirmed
            /\ <<request, sent, completions, processment, total_tokens,
                 summaries, contents>>' =
               <<request, sent, completions, processment, total_tokens,
                 summaries, contents>>
            /\ alt_i' = alt_i + 1
            /\ pc' = (IF alt_i < Len(processment.rune_definition.alternatives.val)
                      THEN "ps_confirm" ELSE "ps_copy")]_vars

\* C15 witness: the end of a review of two alternatives in which the first
\* ask was declined and the second agreed to.
C15_Witness ==
    /\ pc = "ps_copy"
    /\ asks = <<[alt |-> 1, confirmed |-> FALSE], [alt |-> 2, confirmed |-> TRUE]>>
    /\ Len(contents) = 1
    /\ Len(summaries) >= 1

AlternativesEvents ==
    {"pa_prompt", "pa_ask_q", "pa_declined", "pa_request", "pa_copy_q",
     "pa_clipboard"}
SummariesEvents == EventKinds \ AlternativesEvents

\* C16: the events of a run are ordered.  The driver's index moves forward one
\* record at a time and every prompt, question, request and clipboard write
\* is an event of the record at that index, so all the events of a record
\* come before those of a later record; no alternatives-stage event is added
\* to a record that has a summaries-stage event; and a summaries review walks
\* the alternatives from the first on, one at a time, the prompt put to the
\* operator in the k-th turn being the one of the k-th alternative.
C16_EventsOrdered ==
    /\ [](pc = "ps_confirm" =>
            /\ alt_i \in 1..Len(processment.rune_definition.alternatives.val)
            /\ prompt = PROMPT_TO_SUMMARY(
                            processment.rune_definition.alternatives.val[alt_i]))
    /\ [][/\ i' \in {i, i + 1}
          /\ \A r \in Records :
               /\ events'[r] # events[r] => r = i
               /\ events[r] \subseteq events'[r]
               /\ events[r] \cap SummariesEvents # {}
                    => events'[r] \cap AlternativesEvents \subseteq events[r]
          /\ sent' # sent
               => (i \in Records /\ i' = i
                   /\ events'[i] \cap {"pa_request", "ps_request"} # {})
          /\ clipboard' # clipboard
               => (i \in Records
                   /\ events'[i] \cap {"pa_clipboard", "ps_clipboard"} # {})
          /\ (InSummaries /\ InSummaries') => (i' = i /\ alt_i' \in {alt_i, alt_i + 1})
          /\ (~InSummaries /\ InSummaries') => alt_i' = 1]_vars

\* C16 witness: the second alternative of the second record is put to the
\* operator after the first record's review left its events.
C16_Witness ==
    /\ pc = "ps_confirm"
    /\ i = 2
    /\ alt_i = 2
    /\ events[1] \cap SummariesEvents # {}
    /\ "ps_request" \in events[2]

\* C17: a record gets at most one stage in a run.  The summaries review runs
\* only for a record whose alternatives were a non-empty list when the
\* document was loaded, and never for a record on which the alternatives
\* review ran, whatever the operator answered and whatever items the
\* completion gave.
C17_AtMostOneStage ==
    /\ \A r \in Records :
         /\ ~(AlternativesRan(r) /\ SummariesRan(r))
         /\ SummariesRan(r) => truthy(loaded[r].alternatives)
    /\ InSummaries => (truthy(loaded[i].alternatives) /\ ~AlternativesRan(i))

\* C17 witness: the run is over; for a record without summaries the
\* alternatives review obtained a completion with items, copied them, and no
\* summaries review followed.
C17_Witness ==
    /\ pc = "done"
    /\ \E r \in Records :
         /\ "pa_clipboard" \in events[r]
         /\ ~truthy(loaded[r].summaries)
         /\ ~SummariesRan(r)
    /\ Len(items) = 2

\* The number of places of s at which sub occurs, and whether s ends with sub.
Occurrences(s, sub) ==
    Cardinality({ k \in 1..(Len(s) - Len(sub) + 1) : SubSeq(s, k, k + Len(sub) - 1) = sub })
endswith(s, sub) ==
    Len(s) >= Len(sub) /\ SubSeq(s, Len(s) - Len(sub) + 1, Len(s)) = sub

\* The prompt begins with the template up to the first rune name, the name
\* and then next; it ends with the template's last line up to the second
\* rune name, the name, then last and the line end.
NameFollowedBy(text, rune_name, next, last) ==
    /\ startswith(text,
          "Escribe 10 párrafos que sean variación del siguiente párrafo:\n\n"
          \o "la runa " \o rune_name \o next)
    /\ endswith(text,
          "\n\nPero no te salgas de la runa " \o rune_name \o last \o "\n")

\* C18 (as stated): for a record of type invert the prompt has ' invertida'
\* right after the prefix-stripped rune name in both occurrences of the name;
\* for a record of type normal the prompt does not contain 'invertida' at all,
\* whatever the rune name and the description.
C18_InvertidaOnlyForInvert ==
    fn_pc = "prompt" =>
        IF fn_in.type = "invert"
        THEN NameFollowedBy(fn_out, get_only_the_rune_name(fn_in.rune_name),
                            " invertida: ", " invertida")
        ELSE Occurrences(fn_out, "invertida") = 0

\* C18 (amended): for a record of type invert the prompt has ' invertida'
\* right after the prefix-stripped rune name in both occurrences of the name;
\* for a record of type normal the name is followed directly by the colon and
\* by the line end, and the prompt contains 'invertida' only where the name
\* (twice in the prompt) or the description contains it.
C18_InvertidaFromTypeNameAndText ==
    fn_pc = "prompt" =>
        LET rune_name == get_only_the_rune_name(fn_in.rune_name)
            own == 2 * Occurrences(rune_name, "invertida")
                     + Occurrences(fn_in.description, "invertida")
        IN  IF fn_in.type = "invert"
            THEN /\ NameFollowedBy(fn_out, rune_name, " invertida: ", " invertida")
                 /\ Occurrences(fn_out, "invertida") = own + 2
            ELSE /\ NameFollowedBy(fn_out, rune_name, ": ", "")
                 /\ Occurrences(fn_out, "invertida") = own

\* C18 witness: the prompt of a record of type normal whose description has
\* the word in it.
C18_Witness ==
    /\ fn_pc = "prompt"
    /\ fn_in.type = "normal"
    /\ fn_in.description = "runa invertida"
    /\ fn_in.rune_name = "RUNA FEHU"
    /\ Occurrences(fn_out, "invertida") = 1

====
